---- MODULE Spec2Model ----
(***************************************************************************)
(* Live danmaku fan-in/fan-out: the connection manager of                  *)
(* backend/app/api/live.py, the upstream client of                         *)
(* backend/app/services/live_client.py and the Kafka publisher of          *)
(* backend/app/services/kafka_service.py, as a state machine.              *)
(*                                                                         *)
(* The manager runs on one asyncio event loop: code between two awaits is  *)
(* one atomic step, and every await that can suspend is a point where the  *)
(* other coroutines may run.  Each action below is the code of one         *)
(* coroutine from one suspension point to the next.                        *)
(*                                                                         *)
(* Time is counted in ticks of half a second.  Sentiment scores are        *)
(* integers in hundredths (72 stands for 0.72).                            *)
(***************************************************************************)
EXTENDS Integers, Sequences, FiniteSets, TLC

\* ------------------------------------------------------------------ bounds
\* websocket connections that are opened during a run
NumWS == 4
\* websockets that subscribe in the specifications with upstream events
NumSubs == 2
\* websockets and upstream events in the specification with the clock
NumTimerSubs == 1
MaxTimerEvents == 2
\* upstream events in the specification of the publisher
MaxKafkaEvents == 1
\* upstream events (danmaku or gift) received during a run
MaxEvents == 2
\* last tick of the clock
MaxTime == 5

\* rows published to the durable stream during a run
MaxRows == 3
\* 5-second event-time windows the rows fall in
NumWindows == 2
\* micro-batches that the streaming engine runs a second time
MaxReplays == 1
\* concurrent callers of the upstream client's disconnect()
NumCallers == 3
\* largest danmaku count of a room when a query is answered
MaxTotal == 1
\* pings that a client sends
MaxPings == 2
\* websockets and danmaku events in the specification of the labels
NumLabelSubs == 1
MaxLabelEvents == 2

Rooms == {1001}
WS == 1..NumWS
\* the rooms whose events are in the durable stream and the shared store
StreamRooms == {1001, 1002}
Callers == 1..NumCallers

\* ------------------------------------------------- program constants
\* self._stats_push_interval = 1.0 s, in ticks
StatsPushInterval == 2
\* self._wordcloud_interval = 3.0 s, in ticks
WordcloudInterval == 6
\* stats_interval = 1 s of the timer loop, in ticks
TimerInterval == 2
\* datetime.min: earlier than every clock value by more than every interval
DatetimeMin == -100
\* deque(maxlen=500)
RecentMaxLen == 500
\* sentiment thresholds, in hundredths
PositiveThreshold == 60
NegativeThreshold == 40

\* the danmaku texts of the model
Contents == {"good", "bad"}

\* the texts of the specification of the labels: with those above, a text for
\* each threshold and one in between
LabelContents == {"good", "bad", "fine", "poor", "plain"}

\* NLPAnalyzer.analyze_sentiment: a pure function of the text; SnowNLP's
\* value for the texts of the model (0.5 is what it returns when the analysis
\* raises)
analyze_sentiment(content) ==
    CASE content = "good" -> 72
      [] content = "bad" -> 35
      [] content = "fine" -> 60
      [] content = "poor" -> 40
      [] OTHER -> 50

VARIABLES
    \* ---- environment
    alive,          \* alive[w]: the peer of websocket w has not closed it
    now,            \* the clock, in ticks
    broker,         \* "up" | "down": whether the Kafka broker answers
    \* ---- live_websocket handlers, one per websocket
    pc,             \* position of the handler coroutine of w
    wsRoom,         \* the room_id path parameter of w
    closing,        \* closing[w]: client whose disconnect() handler w awaits, or 0
    \* ---- LiveConnectionManager
    connections,    \* _connections: room -> id of its set object
    sets,           \* heap of the set objects: id -> set of websockets
    clients,        \* _clients: room -> client id
    cl,             \* heap of the BiliLiveClient objects
    tasks,          \* _tasks: room -> client id whose connect() task it holds
    stats,          \* _stats: room -> LiveRoomStats
    stats_tasks,    \* _stats_tasks: room -> timer id
    tm,             \* heap of the _periodic_broadcast tasks
    last_stats_broadcast,
    last_wordcloud_broadcast,
    nstats,         \* number of LiveRoomStats objects constructed so far
    \* ---- per-event tasks (_broadcast_danmaku / _broadcast_gift)
    ev,             \* sequence of the event tasks, in arrival order
    \* ---- kafka_service
    producer,       \* _producer: "none" | "open"
    published,      \* records handed to producer.send, in order
    \* ---- observation
    delivered,      \* delivered[w]: the status and snapshot of connect and the
                    \* event messages written to websocket w, in order
    emits,          \* emits[r]: <<t1, t2>>, the times of the last two "stats"
                    \* broadcasts of room r that had a subscriber to send to
    \* ---- durable stream and Stream Aggregator (spark_streaming.py)
    topic,          \* the rows of live-danmaku-topic, in offset order
    offset,         \* rows of the topic whose micro-batch has completed
    batch_log,      \* the write_to_redis calls so far, in order
    \* ---- shared store (Redis)
    redis,          \* redis[r]: the keys live:stats:r, live:danmaku:r and
                    \* live:stats:r:history
    redis_up,       \* whether the backend's Redis client reaches the store
    \* ---- query endpoints of the backend
    registry,       \* the active rooms, in the order of the keys of
                    \* _connections, each with its LiveRoomStats counters
    response,       \* the last response of a query endpoint
    \* ---- callers of BiliLiveClient.disconnect() outside the manager
    dpc,            \* dpc[k]: position of caller k
    \* ---- the client side of the websockets, and the process
    received,       \* received[w]: the kind of the last payload that the
                    \* handler of w got from receive_json
    app,            \* "running" | "stopped": the lifespan of the application
    \* ---- redis_service
    redis_client,   \* _client: whether it is set, and whether the ping of
                    \* the object it holds was answered
    available       \* the last answer of is_redis_available()

vars == <<alive, now, broker, pc, wsRoom, closing, connections, sets, clients,
          cl, tasks, stats, stats_tasks, tm, last_stats_broadcast,
          last_wordcloud_broadcast, nstats, ev, producer, published,
          delivered, emits, topic, offset, batch_log, redis, redis_up,
          registry, response, dpc, received, app, redis_client, available>>

\* the variables of the live service, and those of the stream, the store, the
\* queries and the client's outside callers
liveVars == <<alive, now, broker, pc, wsRoom, closing, connections, sets,
              clients, cl, tasks, stats, stats_tasks, tm, last_stats_broadcast,
              last_wordcloud_broadcast, nstats, ev, producer, published,
              delivered, emits>>
streamVars == <<topic, offset, batch_log>>
queryVars == <<redis_up, registry, response>>
ctlVars == <<received, app, redis_client, available>>
auxVars == <<topic, offset, batch_log, redis, redis_up, registry, response, dpc,
             ctlVars>>

envVars == <<alive, now, broker>>
hVars == <<pc, wsRoom, closing>>
mgrVars == <<connections, sets, clients, cl, tasks, stats, stats_tasks, tm,
             last_stats_broadcast, last_wordcloud_broadcast, nstats>>
kafkaVars == <<producer, published>>

\* ------------------------------------------------------------ dict helpers
Put(d, k, v) == [x \in (DOMAIN d) \cup {k} |-> IF x = k THEN v ELSE d[x]]
Del(d, k) == [x \in (DOMAIN d) \ {k} |-> d[x]]
EmptyDict == [x \in {} |-> 0]

\* ------------------------------------------------------------ LiveRoomStats
\* counters kept in class attributes shared by all instances, as mutable
\* defaults without default_factory would be
LiveRoomStatsShared(id, t) ==
    [id |-> id, start_time |-> t,
     total_danmaku |-> Cardinality({e \in DOMAIN ev : ev[e].counted # 0}),
     total_gift |-> 0, sentiment_sum |-> 0,
     sentiment_dist |-> [positive |-> 0, neutral |-> 0, negative |-> 0],
     recent_danmakus |-> << >>]

\* LiveRoomStats(): the dataclass defaults; id is the object's identity
LiveRoomStats(id, t) ==
    [id |-> id, start_time |-> t, total_danmaku |-> 0, total_gift |-> 0,
     sentiment_sum |-> 0,
     sentiment_dist |-> [positive |-> 0, neutral |-> 0, negative |-> 0],
     recent_danmakus |-> << >>]

\* deque(maxlen=500).append
DequeAppend(q, x) ==
    IF Len(q) >= RecentMaxLen THEN Append(Tail(q), x) ELSE Append(q, x)

add_danmaku(s, content, score, label) ==
    [s EXCEPT !.total_danmaku = @ + 1,
              !.sentiment_sum = @ + score,
              !.sentiment_dist = [@ EXCEPT ![label] = @ + 1],
              !.recent_danmakus = DequeAppend(@, content)]

add_gift(s) == [s EXCEPT !.total_gift = @ + 1]

\* the label with thresholds that exclude their own value
sentiment_label_exclusive(score) ==
    IF score > PositiveThreshold THEN "positive"
    ELSE IF score < NegativeThreshold THEN "negative"
    ELSE "neutral"

\* the label _broadcast_danmaku derives from the score
sentiment_label(score) ==
    IF score >= PositiveThreshold THEN "positive"
    ELSE IF score <= NegativeThreshold THEN "negative"
    ELSE "neutral"

\* ------------------------------------------------------------- shared store
ZeroDist == [positive |-> 0, neutral |-> 0, negative |-> 0]
\* the key live:stats:r does not exist
NoStats == [kind |-> "none", total_danmaku |-> 0, sentiment_sum |-> 0,
            sentiment_dist |-> ZeroDist, avg_sentiment |-> 0]
\* no key of room r exists: danmaku is the length of the list live:danmaku:r,
\* history the list live:stats:r:history
NoEntry == [stats |-> NoStats, danmaku |-> 0, history |-> << >>]
\* no query was answered yet
NoResponse == [op |-> "none", source |-> "none", rooms |-> << >>]

\* ------------------------------------------------------------ BiliLiveClient
\* BiliLiveClient.__init__ followed by asyncio.create_task(client.connect()):
\* the task exists but has not run yet
NewClient(r) ==
    [room |-> r, task |-> "pending", is_connected |-> FALSE, has_room |-> FALSE]

\* task.cancel(): a task that has not finished ends cancelled; CancelledError
\* is not an Exception, so connect()'s except clause does not run
CancelTask(c) ==
    IF c.task \in {"pending", "running"} THEN [c EXCEPT !.task = "cancelled"]
    ELSE c

\* the finally clause of BiliLiveClient.disconnect
Disconnected(c) == [c EXCEPT !.is_connected = FALSE, !.has_room = FALSE]

\* _periodic_broadcast task as created by connect: about to sleep
NoIter == [sid |-> 0, size |-> 0, initial |-> {}, cur |-> 0, disconnected |-> {}]
\* caught: the loop's last round ended in its `except Exception` clause
NewTimer(r, t) ==
    [room |-> r, pc |-> "sleep", wake |-> t + TimerInterval, it |-> NoIter,
     caught |-> FALSE]

Subscribers(r) == IF r \in DOMAIN connections THEN sets[connections[r]] ELSE {}

\* ------------------------------------------------------------------- Init
InitRest ==
    /\ alive = [w \in WS |-> TRUE]
    /\ now = 0
    /\ pc = [w \in WS |-> "accept"]
    /\ wsRoom \in [WS -> Rooms]
    /\ closing = [w \in WS |-> 0]
    /\ connections = EmptyDict
    /\ sets = << >>
    /\ clients = EmptyDict
    /\ cl = << >>
    /\ tasks = EmptyDict
    /\ stats = EmptyDict
    /\ stats_tasks = EmptyDict
    /\ tm = << >>
    /\ last_stats_broadcast = EmptyDict
    /\ last_wordcloud_broadcast = EmptyDict
    /\ nstats = 0
    /\ ev = << >>
    /\ producer = "none"
    /\ published = << >>
    /\ delivered = [w \in WS |-> << >>]
    /\ emits = [r \in Rooms |-> <<DatetimeMin, DatetimeMin>>]

\* no payload received, the application running, _client = None, no answer
\* of the health check yet
NoClient == [set |-> FALSE, pinged |-> FALSE]
InitCtl ==
    /\ received = [w \in WS |-> "none"]
    /\ app = "running"
    /\ redis_client = NoClient
    /\ available = "unknown"

\* an empty topic, an empty store that answers, no active room, no query yet
InitAux ==
    /\ topic = << >>
    /\ offset = 0
    /\ batch_log = << >>
    /\ redis = [r \in StreamRooms |-> NoEntry]
    /\ redis_up = TRUE
    /\ registry = << >>
    /\ response = NoResponse
    /\ dpc = [k \in Callers |-> "idle"]
    /\ InitCtl

\* the state after the module is imported and `manager` is constructed, with
\* a Kafka broker that answers
Init == broker = "up" /\ InitRest /\ InitAux
\* the same, with a broker that may not answer
InitKafka == broker \in {"up", "down"} /\ InitRest /\ InitAux

\* -------------------------------------------------------------- environment
\* the peer of w closes the connection: from now on send_json raises and
\* receive_json raises WebSocketDisconnect
PeerClose(w) ==
    /\ alive[w]
    /\ pc[w] \in {"accept", "send_status", "send_stats", "recv", "send_pong"}
    /\ alive' = [alive EXCEPT ![w] = FALSE]
    /\ UNCHANGED <<now, broker, hVars, mgrVars, ev, kafkaVars, delivered, emits>>
    /\ UNCHANGED auxVars

\* ------------------------------------------------- LiveConnectionManager.connect
\* await websocket.accept() raises: nothing was registered, and the exception
\* leaves live_websocket (connect is called outside its try block)
AcceptFail(w) ==
    /\ pc[w] = "accept"
    /\ ~alive[w]
    /\ pc' = [pc EXCEPT ![w] = "crashed"]
    /\ UNCHANGED <<envVars, wsRoom, closing, mgrVars, ev, kafkaVars, delivered, emits>>
    /\ UNCHANGED auxVars

\* connect from the return of accept() to the await of the status send_json:
\* register the websocket and, when the room has no client, create the stats,
\* the client (_create_bili_client has no suspension point) and the timer loop
ConnectRegister(w) ==
    LET r == wsRoom[w]
        fresh == r \notin DOMAIN connections
        sid == IF fresh THEN Len(sets) + 1 ELSE connections[r]
        sets1 == IF fresh THEN Append(sets, {}) ELSE sets
        create == r \notin DOMAIN clients
    IN
    /\ pc[w] = "accept"
    /\ alive[w]
    /\ connections' = IF fresh THEN Put(connections, r, sid) ELSE connections
    /\ sets' = [sets1 EXCEPT ![sid] = @ \cup {w}]
    /\ IF create
       THEN /\ nstats' = nstats + 1
            /\ stats' = Put(stats, r, LiveRoomStats(nstats + 1, now))
            /\ last_stats_broadcast' = Put(last_stats_broadcast, r, DatetimeMin)
            /\ last_wordcloud_broadcast' = Put(last_wordcloud_broadcast, r, DatetimeMin)
            /\ cl' = Append(cl, NewClient(r))
            /\ clients' = Put(clients, r, Len(cl) + 1)
            /\ tasks' = Put(tasks, r, Len(cl) + 1)
            /\ tm' = Append(tm, NewTimer(r, now))
            /\ stats_tasks' = Put(stats_tasks, r, Len(tm) + 1)
       ELSE UNCHANGED <<nstats, stats, last_stats_broadcast,
                        last_wordcloud_broadcast, cl, clients, tasks, tm,
                        stats_tasks>>
    /\ pc' = [pc EXCEPT ![w] = "send_status"]
    /\ UNCHANGED <<envVars, wsRoom, closing, ev, kafkaVars, delivered, emits>>
    /\ UNCHANGED auxVars

\* the status send_json returns or raises; after it, the stats snapshot is
\* sent when the room has stats
ConnectStatusSent(w) ==
    /\ pc[w] = "send_status"
    /\ IF alive[w]
       THEN /\ delivered' = [delivered EXCEPT ![w] = Append(@, [type |-> "status", n |-> 0])]
            /\ pc' = [pc EXCEPT ![w] =
                        IF wsRoom[w] \in DOMAIN stats THEN "send_stats" ELSE "recv"]
       ELSE /\ pc' = [pc EXCEPT ![w] = "crashed"]
            /\ UNCHANGED delivered
    /\ UNCHANGED <<envVars, wsRoom, closing, mgrVars, ev, kafkaVars, emits>>
    /\ UNCHANGED auxVars

\* the stats send_json returns or raises.  The payload was built from
\* self._stats[room_id] before the await.
ConnectStatsSent(w) ==
    /\ pc[w] = "send_stats"
    /\ IF alive[w]
       THEN /\ delivered' = [delivered EXCEPT ![w] = Append(@, [type |-> "stats", n |-> 0])]
            /\ pc' = [pc EXCEPT ![w] = "recv"]
       ELSE /\ pc' = [pc EXCEPT ![w] = "crashed"]
            /\ UNCHANGED delivered
    /\ UNCHANGED <<envVars, wsRoom, closing, mgrVars, ev, kafkaVars, emits>>
    /\ UNCHANGED auxVars

\* ---------------------------------------------- LiveConnectionManager.disconnect
\* the part of disconnect after `del self._clients[room_id]`:
\* del _connections[room_id], cancel and delete the timer task, delete the
\* stats and the two throttle timestamps
FinishTeardown(r) ==
    /\ connections' = Del(connections, r)
    /\ IF r \in DOMAIN stats_tasks
       THEN /\ tm' = [tm EXCEPT ![stats_tasks[r]].pc = "cancelled"]
            /\ stats_tasks' = Del(stats_tasks, r)
       ELSE UNCHANGED <<tm, stats_tasks>>
    /\ stats' = Del(stats, r)
    /\ last_stats_broadcast' = Del(last_stats_broadcast, r)
    /\ last_wordcloud_broadcast' = Del(last_wordcloud_broadcast, r)

\* disconnect from its first line to the await of the client's disconnect(),
\* or to its end when nothing is awaited
DisconnectRun(w) ==
    LET r == wsRoom[w]
        sid == connections[r]
        left == sets[sid] \ {w}
        \* _close_bili_client, first half: cancel and delete the connect task
        cl1 == IF r \in DOMAIN tasks
               THEN [cl EXCEPT ![tasks[r]] = CancelTask(@)] ELSE cl
        c == clients[r]
    IN
    /\ IF r \notin DOMAIN connections
       THEN /\ pc' = [pc EXCEPT ![w] = "done"]
            /\ UNCHANGED <<closing, mgrVars>>
       ELSE IF left # {}
       THEN /\ sets' = [sets EXCEPT ![sid] = left]
            /\ pc' = [pc EXCEPT ![w] = "done"]
            /\ UNCHANGED <<closing, connections, clients, cl, tasks, stats,
                           stats_tasks, tm, last_stats_broadcast,
                           last_wordcloud_broadcast, nstats>>
       ELSE /\ sets' = [sets EXCEPT ![sid] = left]
            /\ tasks' = Del(tasks, r)
            /\ IF r \in DOMAIN clients /\ cl1[c].has_room /\ cl1[c].is_connected
               THEN \* await self._room.disconnect()
                    /\ cl' = cl1
                    /\ closing' = [closing EXCEPT ![w] = c]
                    /\ pc' = [pc EXCEPT ![w] = "close_wait"]
                    /\ UNCHANGED <<connections, clients, stats, stats_tasks, tm,
                                   last_stats_broadcast, last_wordcloud_broadcast>>
               ELSE \* client.disconnect() returns at once, if there is a client
                    /\ cl' = cl1
                    /\ clients' = Del(clients, r)
                    /\ FinishTeardown(r)
                    /\ pc' = [pc EXCEPT ![w] = "done"]
                    /\ UNCHANGED closing
            /\ UNCHANGED nstats

\* receive_json raises WebSocketDisconnect and the handler calls disconnect
DisconnectBegin(w) ==
    /\ pc[w] = "recv"
    /\ ~alive[w]
    /\ DisconnectRun(w)
    /\ UNCHANGED <<envVars, wsRoom, ev, kafkaVars, delivered, emits>>
    /\ UNCHANGED auxVars

\* ---------------------------------------------------------- lifespan (main.py)
\* the code of lifespan after its yield: it logs and stops the ETL scheduler.
\* It calls nothing of the manager and nothing of kafka_service
\* (close_kafka_producer has no caller), and the process exits.
Shutdown ==
    /\ app = "running"
    /\ app' = "stopped"
    /\ UNCHANGED <<liveVars, topic, offset, batch_log, redis, redis_up,
                   registry, response, dpc, received, redis_client, available>>

\* ------------------------------------------------ live_websocket receive loop
\* what a client can send: {"action": "ping"}, another JSON object, a JSON
\* value that is not an object (a list, a number, a string, null), and a frame
\* that is not JSON
Payloads == {"ping", "object", "not_object", "malformed"}

Pongs(w) == Cardinality({i \in DOMAIN delivered[w] : delivered[w][i].type = "pong"})

\* receive_json returns the payload, or raises on a frame that is not JSON.
\* data.get("action") raises AttributeError on a value that is not an object.
\* Either exception is caught by `except Exception`, which prints and calls
\* manager.disconnect; the handler then returns.
ClientMessage(w, payload) ==
    /\ pc[w] = "recv"
    /\ alive[w]
    /\ payload = "ping" => Pongs(w) < MaxPings
    /\ received' = [received EXCEPT ![w] = payload]
    /\ IF payload = "ping"
       THEN /\ pc' = [pc EXCEPT ![w] = "send_pong"]
            /\ UNCHANGED <<closing, mgrVars>>
       ELSE IF payload = "object"
       THEN UNCHANGED <<pc, closing, mgrVars>>
       ELSE DisconnectRun(w)
    /\ UNCHANGED <<envVars, wsRoom, ev, kafkaVars, delivered, emits>>
    /\ UNCHANGED <<topic, offset, batch_log, redis, redis_up, registry,
                   response, dpc, app, redis_client, available>>

\* the send_json of the pong returns, and the loop is back at receive_json;
\* or it raises because the peer has closed, and the handler calls disconnect
PongSent(w) ==
    /\ pc[w] = "send_pong"
    /\ IF alive[w]
       THEN /\ delivered' = [delivered EXCEPT ![w] = Append(@, [type |-> "pong", n |-> 0])]
            /\ pc' = [pc EXCEPT ![w] = "recv"]
            /\ UNCHANGED <<closing, mgrVars>>
       ELSE /\ DisconnectRun(w)
            /\ UNCHANGED delivered
    /\ UNCHANGED <<envVars, wsRoom, ev, kafkaVars, emits>>
    /\ UNCHANGED auxVars

\* self._room.disconnect() has returned (or raised, which is caught): the
\* finally clause, then the rest of _close_bili_client and of disconnect.
\* `del self._clients[room_id]` raises KeyError when the entry is gone.
DisconnectResume(w) ==
    LET r == wsRoom[w]
        c == closing[w]
    IN
    /\ pc[w] = "close_wait"
    /\ closing' = [closing EXCEPT ![w] = 0]
    /\ cl' = [cl EXCEPT ![c] = Disconnected(@)]
    /\ IF r \notin DOMAIN clients \/ r \notin DOMAIN connections
       THEN /\ pc' = [pc EXCEPT ![w] = "crashed"]
            /\ clients' = Del(clients, r)
            /\ UNCHANGED <<connections, stats, stats_tasks, tm,
                           last_stats_broadcast, last_wordcloud_broadcast>>
       ELSE /\ clients' = Del(clients, r)
            /\ FinishTeardown(r)
            /\ pc' = [pc EXCEPT ![w] = "done"]
    /\ UNCHANGED <<envVars, wsRoom, sets, tasks, nstats, ev, kafkaVars,
                   delivered, emits>>
    /\ UNCHANGED auxVars

\* ------------------------------------------------------ BiliLiveClient.connect
\* the connect() task runs for the first time: _is_connected is False, so it
\* creates the room connection, sets _is_connected and awaits _room.connect()
ClientTaskStart(c) ==
    /\ c \in DOMAIN cl
    /\ cl[c].task = "pending"
    /\ cl' = [cl EXCEPT ![c] = [@ EXCEPT !.task = "running",
                                         !.is_connected = TRUE,
                                         !.has_room = TRUE]]
    /\ UNCHANGED <<envVars, hVars, connections, sets, clients, tasks, stats,
                   stats_tasks, tm, last_stats_broadcast,
                   last_wordcloud_broadcast, nstats, ev, kafkaVars, delivered,
                   emits>>
    /\ UNCHANGED auxVars

\* the awaited self._room.connect() of a running connect() ends: it raises
\* (the except clause clears _is_connected and runs the on_disconnect
\* callbacks, of which the manager registers none) or it returns; either way
\* connect() returns and nothing else is told
UpstreamFail(c, raised) ==
    /\ c \in DOMAIN cl
    /\ cl[c].task = "running"
    /\ cl' = [cl EXCEPT ![c] = [@ EXCEPT !.task = "ended",
                                         !.is_connected =
                                             IF raised THEN FALSE ELSE @]]
    /\ UNCHANGED <<envVars, hVars, connections, sets, clients, tasks, stats,
                   stats_tasks, tm, last_stats_broadcast,
                   last_wordcloud_broadcast, nstats, ev, kafkaVars, delivered,
                   emits>>
    /\ UNCHANGED auxVars

\* --------------------------------------------------- BiliLiveClient.disconnect
\* a caller other than the manager calls disconnect() of client c: with a room
\* connection and _is_connected it awaits self._room.disconnect(), else the
\* call returns at once
ClientDisconnectCall(k, c) ==
    /\ dpc[k] = "idle"
    /\ c \in DOMAIN cl
    /\ dpc' = [dpc EXCEPT ![k] = IF cl[c].has_room /\ cl[c].is_connected
                                  THEN "await" ELSE "returned"]
    /\ UNCHANGED <<liveVars, streamVars, redis, queryVars, ctlVars>>

\* the awaited self._room.disconnect() returns or raises an Exception, which
\* is caught; the finally clause clears _is_connected and _room
ClientDisconnectDone(k, c) ==
    /\ dpc[k] = "await"
    /\ cl' = [cl EXCEPT ![c] = Disconnected(@)]
    /\ dpc' = [dpc EXCEPT ![k] = "returned"]
    /\ UNCHANGED <<envVars, hVars, connections, sets, clients, tasks, stats,
                   stats_tasks, tm, last_stats_broadcast,
                   last_wordcloud_broadcast, nstats, ev, kafkaVars, delivered,
                   emits, streamVars, redis, queryVars, ctlVars>>

\* a client of room 1001 outside the manager: constructed, and its connect()
\* scheduled as a task that has not run yet
InitClient ==
    /\ broker = "up"
    /\ alive = [w \in WS |-> TRUE]
    /\ now = 0
    /\ pc = [w \in WS |-> "accept"]
    /\ wsRoom = [w \in WS |-> 1001]
    /\ closing = [w \in WS |-> 0]
    /\ connections = EmptyDict
    /\ sets = << >>
    /\ clients = EmptyDict
    /\ cl = <<NewClient(1001)>>
    /\ tasks = EmptyDict
    /\ stats = EmptyDict
    /\ stats_tasks = EmptyDict
    /\ tm = << >>
    /\ last_stats_broadcast = EmptyDict
    /\ last_wordcloud_broadcast = EmptyDict
    /\ nstats = 0
    /\ ev = << >>
    /\ producer = "none"
    /\ published = << >>
    /\ delivered = [w \in WS |-> << >>]
    /\ emits = [r \in Rooms |-> <<DatetimeMin, DatetimeMin>>]
    /\ InitAux

\* ------------------------------------------------ LiveConnectionManager._broadcast
\* `for websocket in self._connections[room_id]` is an iterator over one set
\* object: sid is the object, size its length and initial its members when the
\* iterator was made, cur the websocket whose send_json is awaited, and
\* disconnected the local set of failed websockets.  A set is iterated in the order of its hash table; the
\* websockets hash by identity and the model takes the order of their
\* numbers, so a websocket added during the iteration is produced when its
\* slot lies after the iterator's position.
\*
\* the members next() can still produce after position cur
IterRest(S, cur) == {w \in S : w > cur}
IterFirst(S) == CHOOSE w \in S : \A x \in S : w <= x

\* _broadcast up to its first await: no iterator when the room has no entry in
\* _connections or its set is empty (the call returns without suspending)
IterStarts(r, setsNow) ==
    IF r \notin DOMAIN connections THEN {}
    ELSE LET S == setsNow[connections[r]] IN
         IF S = {} THEN {}
         ELSE {[sid |-> connections[r], size |-> Cardinality(S), initial |-> S,
                cur |-> IterFirst(S), disconnected |-> {}]}

\* the local `disconnected` after the awaited send_json returned or raised
AfterSend(it) ==
    IF alive[it.cur] THEN it.disconnected ELSE it.disconnected \cup {it.cur}

\* the set iterator's next(): RuntimeError when the set's size differs from
\* the size at the iterator's creation
IterRaises(it) == Cardinality(sets[it.sid]) # it.size

\* what next() produces: nothing at the end of the table
IterChoices(it) ==
    LET rest == IterRest(sets[it.sid], it.cur) IN
    IF rest = {} THEN {} ELSE {IterFirst(rest)}
IterMayStop(it) == IterChoices(it) = {}

IterAdvance(it, w) == [it EXCEPT !.cur = w, !.disconnected = AfterSend(it)]

\* the loop after the iteration: self._connections[room_id].discard(websocket)
\* for each failed websocket; KeyError when the room's entry is gone
RemoveRaises(r, it) == AfterSend(it) # {} /\ r \notin DOMAIN connections
RemoveDisconnected(r, it) ==
    IF AfterSend(it) = {} THEN sets
    ELSE [sets EXCEPT ![connections[r]] = @ \ AfterSend(it)]

\* how a _broadcast call of a task ended: the exception it raised, the
\* subscribers it started with, those whose send failed, and those that were
\* subscribed from its start to its end and got no send
NoResult == [error |-> "none", initial |-> {}, failed_sends |-> {}, skipped |-> {}]
Unsent(r, it) ==
    {w \in it.initial \cap sets[it.sid] \cap Subscribers(r) : w > it.cur}
Result(r, it, error) ==
    [error |-> error, initial |-> it.initial, failed_sends |-> AfterSend(it),
     skipped |-> IF error = "RuntimeError" THEN Unsent(r, it) ELSE {}]

\* websocket.send_json(message) is called: the message is written when the
\* peer is there
Written(w, msg) ==
    IF alive[w] /\ msg.type \in {"danmaku", "gift"}
    THEN [delivered EXCEPT ![w] = Append(@, msg)] ELSE delivered

\* a "stats" broadcast of room r starts at the current time
Emitted(r) == [emits EXCEPT ![r] = <<@[2], now>>]

\* ------------------------------------------------------------- kafka_service
\* get_kafka_producer: the singleton, created on first use; creating it fails
\* (and is retried on the next call) while the broker does not answer
get_kafka_producer == IF producer = "open" \/ broker = "up" THEN "open" ELSE "none"

\* send_danmaku_to_kafka / send_gift_to_kafka: without a producer the call
\* returns False; producer.send raises while the broker does not answer, and
\* the try block swallows it.  "raised" would be an exception that leaves the
\* function.
KafkaSendUnguarded ==
    IF get_kafka_producer = "none" THEN "raised"
    ELSE IF broker = "up" THEN "sent" ELSE "raised"
KafkaOutcome ==
    IF get_kafka_producer = "none" THEN "no_producer"
    ELSE IF broker = "up" THEN "sent" ELSE "swallowed"

\* producer.send(KAFKA_TOPIC_DANMAKU, value=message): the record of event e
\* has the message as its value and no key
NoKey == 0
ProducerRecord(e) == [key |-> NoKey, value |-> e]

\* the message dict of send_danmaku_to_kafka for event e: the score and the
\* label are the arguments of the call
KafkaMessage(e) ==
    [room_id |-> ev[e].room, content |-> ev[e].content,
     sentiment_score |-> ev[e].score, sentiment_label |-> ev[e].label,
     msg_type |-> "danmaku"]

\* the "data" of the danmaku message of _broadcast_danmaku for event e;
\* round(sentiment_score, 3) leaves a score in hundredths as it is
DanmakuMessageData(e) ==
    [room_id |-> ev[e].room, content |-> ev[e].content,
     sentiment_score |-> ev[e].score, sentiment_label |-> ev[e].label]

\* A published record is named by its event: its fields are those of ev[e].
KafkaSend(e) ==
    /\ producer' = get_kafka_producer
    /\ published' = IF KafkaOutcome = "sent" THEN Append(published, e)
                    ELSE published

\* ------------------------------------------------------------ per-event tasks
NoMsg == [type |-> "none", n |-> 0]
StatsMsg(s) == [type |-> "stats", n |-> s.total_danmaku]
EventMsg(e) == [type |-> ev[e].kind, n |-> e]

\* the upstream client dispatches a DANMU_MSG or SEND_GIFT event: the
\* registered callback creates a task for it.  A danmaku task first awaits the
\* scoring in the thread pool.
EventArrive(c, kind, content, n) ==
    /\ c \in DOMAIN cl
    /\ cl[c].task = "running"
    /\ Len(ev) < n
    /\ ev' = Append(ev, [kind |-> kind, room |-> cl[c].room, client |-> c,
                         content |-> content, score |-> 0, label |-> "none",
                         pc |-> IF kind = "danmaku" THEN "scoring" ELSE "start",
                         msg |-> NoMsg, it |-> NoIter, counted |-> 0,
                         order |-> 0,
                         res |-> NoResult])
    /\ UNCHANGED <<envVars, hVars, mgrVars, kafkaVars, delivered, emits>>
    /\ UNCHANGED auxVars

\* the last part of _broadcast_danmaku and _broadcast_gift: publish to Kafka,
\* then _broadcast the event message up to its first await.  evNow, setsNow
\* are ev and sets as the step has changed them so far.
PublishAndBroadcast(e, evNow, setsNow) ==
    LET t == evNow[e]
        starts == IterStarts(t.room, setsNow)
    IN
    /\ KafkaSend(e)
    /\ sets' = setsNow
    /\ IF KafkaOutcome = "raised"
       THEN /\ ev' = [evNow EXCEPT ![e].pc = "failed", ![e].it = NoIter,
                                   ![e].res = [NoResult EXCEPT !.error = "KafkaError"]]
            /\ UNCHANGED delivered
       ELSE IF starts = {}
       THEN /\ ev' = [evNow EXCEPT ![e].pc = "done", ![e].it = NoIter,
                                   ![e].res = NoResult]
            /\ UNCHANGED delivered
       ELSE \E it \in starts :
            /\ ev' = [evNow EXCEPT ![e].pc = "bmsg", ![e].it = it,
                                   ![e].msg = EventMsg(e)]
            /\ delivered' = Written(it.cur, EventMsg(e))

\* the position of the next event in the order in which the event tasks run
\* their stats update
NextOrder == Cardinality({x \in DOMAIN ev : ev[x].order # 0}) + 1

\* _broadcast_danmaku from the return of the scoring to its next await
ScoreDone(e) ==
    LET t == ev[e]
        r == t.room
        score == analyze_sentiment(t.content)
        label == sentiment_label(score)
        ev1 == [ev EXCEPT ![e].score = score, ![e].label = label,
                          ![e].order = NextOrder,
                          ![e].counted = IF r \in DOMAIN stats THEN stats[r].id ELSE 0]
        last == IF r \in DOMAIN last_stats_broadcast
                THEN last_stats_broadcast[r] ELSE DatetimeMin
        push == r \in DOMAIN stats /\ now - last >= StatsPushInterval
        starts == IterStarts(r, sets)
    IN
    /\ e \in DOMAIN ev
    /\ t.pc = "scoring"
    /\ stats' = IF r \in DOMAIN stats
                THEN [stats EXCEPT ![r] = add_danmaku(@, t.content, score, label)]
                ELSE stats
    /\ last_stats_broadcast' = IF push THEN Put(last_stats_broadcast, r, now)
                               ELSE last_stats_broadcast
    /\ IF push /\ starts # {}
       THEN /\ \E it \in starts :
                 /\ ev' = [ev1 EXCEPT ![e].pc = "bstats", ![e].it = it,
                                       ![e].msg = StatsMsg(stats'[r])]
                 /\ delivered' = Written(it.cur, StatsMsg(stats'[r]))
            /\ emits' = Emitted(r)
            /\ UNCHANGED <<sets, kafkaVars>>
       ELSE /\ PublishAndBroadcast(e, ev1, sets)
            /\ UNCHANGED emits
    /\ UNCHANGED <<envVars, hVars, connections, clients, cl, tasks, stats_tasks,
                   tm, last_wordcloud_broadcast, nstats>>
    /\ UNCHANGED auxVars

\* _broadcast_gift from its first line to its first await
GiftRun(e) ==
    LET t == ev[e]
        r == t.room
    IN
    /\ e \in DOMAIN ev
    /\ t.pc = "start"
    /\ stats' = IF r \in DOMAIN stats THEN [stats EXCEPT ![r] = add_gift(@)]
                ELSE stats
    /\ PublishAndBroadcast(
           e, [ev EXCEPT ![e].counted = IF r \in DOMAIN stats THEN stats[r].id ELSE 0,
                         ![e].order = NextOrder],
           sets)
    /\ UNCHANGED <<envVars, hVars, connections, clients, cl, tasks, stats_tasks,
                   tm, last_stats_broadcast, last_wordcloud_broadcast, nstats,
                   emits>>
    /\ UNCHANGED auxVars

\* an awaited send_json of the task's _broadcast returns or raises: the
\* iterator's next(), the next send, or the end of the loop and what follows
\* the _broadcast call.  An exception ends the task (nobody awaits it).
EventSendDone(e) ==
    LET t == ev[e]
        r == t.room
        it == t.it
    IN
    /\ e \in DOMAIN ev
    /\ t.pc \in {"bstats", "bmsg"}
    /\ IF IterRaises(it)
       THEN /\ ev' = [ev EXCEPT ![e].pc = "failed", ![e].it = NoIter,
                                 ![e].res = Result(r, it, "RuntimeError")]
            /\ UNCHANGED <<sets, kafkaVars, delivered>>
       ELSE \/ \E w \in IterChoices(it) :
                 /\ ev' = [ev EXCEPT ![e].it = IterAdvance(it, w)]
                 /\ delivered' = Written(w, t.msg)
                 /\ UNCHANGED <<sets, kafkaVars>>
            \/ /\ IterMayStop(it)
               /\ IF RemoveRaises(r, it)
                  THEN /\ ev' = [ev EXCEPT ![e].pc = "failed", ![e].it = NoIter,
                                            ![e].res = Result(r, it, "KeyError")]
                       /\ UNCHANGED <<sets, kafkaVars, delivered>>
                  ELSE IF t.pc = "bstats"
                  THEN PublishAndBroadcast(e, ev, RemoveDisconnected(r, it))
                  ELSE /\ ev' = [ev EXCEPT ![e].pc = "done", ![e].it = NoIter,
                                            ![e].res = Result(r, it, "none")]
                       /\ sets' = RemoveDisconnected(r, it)
                       /\ UNCHANGED <<kafkaVars, delivered>>
    /\ UNCHANGED <<envVars, hVars, connections, clients, cl, tasks, stats,
                   stats_tasks, tm, last_stats_broadcast,
                   last_wordcloud_broadcast, nstats, emits>>
    /\ UNCHANGED auxVars

\* ------------------------------------- LiveConnectionManager._periodic_broadcast
\* the end of one round of the loop: back to `await asyncio.sleep(1)`
Sleep(tmNow, t) ==
    [tmNow EXCEPT ![t].pc = "sleep", ![t].wake = now + TimerInterval,
                  ![t].it = NoIter, ![t].caught = FALSE]

\* an exception in a round of the loop that is left uncaught ends the task
LoopExceptionEndsTask(tmNow, t) ==
    [tmNow EXCEPT ![t].pc = "ended", ![t].it = NoIter, ![t].caught = TRUE]

\* an exception in a round of the loop: `except Exception` prints it, and the
\* while loop goes on with its next sleep
LoopExcept(tmNow, t) ==
    [tmNow EXCEPT ![t].pc = "sleep", ![t].wake = now + TimerInterval,
                  ![t].it = NoIter, ![t].caught = TRUE]

\* the loop after its stats _broadcast: the throttled wordcloud, whose
\* computation is awaited in the thread pool when the room has recent danmaku
WordcloudCheck(t) ==
    LET r == tm[t].room
        last_wc == IF r \in DOMAIN last_wordcloud_broadcast
                   THEN last_wordcloud_broadcast[r] ELSE DatetimeMin
        due == now - last_wc >= WordcloudInterval
    IN
    /\ last_wordcloud_broadcast' =
           IF due THEN Put(last_wordcloud_broadcast, r, now)
           ELSE last_wordcloud_broadcast
    /\ tm' = IF due /\ r \in DOMAIN stats /\ stats[r].recent_danmakus # << >>
             THEN [tm EXCEPT ![t].pc = "wc_compute", ![t].it = NoIter]
             ELSE Sleep(tm, t)

\* asyncio.sleep returns: leave the loop when the room's stats are gone, else
\* _broadcast the stats up to its first await
TimerWake(t) ==
    LET r == tm[t].room
        starts == IterStarts(r, sets)
    IN
    /\ t \in DOMAIN tm
    /\ tm[t].pc = "sleep"
    /\ now >= tm[t].wake
    /\ IF r \notin DOMAIN stats
       THEN /\ tm' = [tm EXCEPT ![t].pc = "ended"]
            /\ UNCHANGED <<last_wordcloud_broadcast, emits>>
       ELSE IF starts = {}
       THEN /\ WordcloudCheck(t)
            /\ UNCHANGED emits
       ELSE /\ \E it \in starts : tm' = [tm EXCEPT ![t].pc = "bstats", ![t].it = it]
            /\ emits' = Emitted(r)
            /\ UNCHANGED last_wordcloud_broadcast
    /\ UNCHANGED <<envVars, hVars, connections, sets, clients, cl, tasks, stats,
                   stats_tasks, last_stats_broadcast, nstats, ev, kafkaVars,
                   delivered>>
    /\ UNCHANGED auxVars

\* an awaited send_json of the loop's _broadcast returns or raises.  An
\* exception of _broadcast is caught by the loop's `except Exception`, and the
\* loop goes on with its next sleep.
TimerSendDone(t) ==
    LET r == tm[t].room
        it == tm[t].it
    IN
    /\ t \in DOMAIN tm
    /\ tm[t].pc \in {"bstats", "bwc"}
    /\ IF IterRaises(it)
       THEN /\ tm' = LoopExcept(tm, t)
            /\ UNCHANGED <<sets, last_wordcloud_broadcast>>
       ELSE \/ \E w \in IterChoices(it) :
                 /\ tm' = [tm EXCEPT ![t].it = IterAdvance(it, w)]
                 /\ UNCHANGED <<sets, last_wordcloud_broadcast>>
            \/ /\ IterMayStop(it)
               /\ IF RemoveRaises(r, it)
                  THEN /\ tm' = LoopExcept(tm, t)
                       /\ UNCHANGED <<sets, last_wordcloud_broadcast>>
                  ELSE /\ sets' = RemoveDisconnected(r, it)
                       /\ IF tm[t].pc = "bstats"
                          THEN WordcloudCheck(t)
                          ELSE /\ tm' = Sleep(tm, t)
                               /\ UNCHANGED last_wordcloud_broadcast
    /\ UNCHANGED <<envVars, hVars, connections, clients, cl, tasks, stats,
                   stats_tasks, last_stats_broadcast, nstats, ev, kafkaVars,
                   delivered, emits>>
    /\ UNCHANGED auxVars

\* the wordcloud computation returns (ok) or raises: _broadcast the wordcloud
\* up to its first await, or go on with the next sleep
TimerWordcloudDone(t, ok) ==
    LET r == tm[t].room
        starts == IterStarts(r, sets)
    IN
    /\ t \in DOMAIN tm
    /\ tm[t].pc = "wc_compute"
    /\ IF ~ok
       THEN tm' = LoopExcept(tm, t)
       ELSE IF starts # {}
       THEN \E it \in starts : tm' = [tm EXCEPT ![t].pc = "bwc", ![t].it = it]
       ELSE tm' = Sleep(tm, t)
    /\ UNCHANGED <<envVars, hVars, connections, sets, clients, cl, tasks, stats,
                   stats_tasks, last_stats_broadcast, last_wordcloud_broadcast,
                   nstats, ev, kafkaVars, delivered, emits>>
    /\ UNCHANGED auxVars

\* half a second passes.  A sleep that is over returns before the clock
\* moves on; everything else that is awaited (a send, the thread pool, the
\* upstream disconnect) may take any time.
Tick ==
    /\ now < MaxTime
    /\ \A t \in DOMAIN tm : tm[t].pc = "sleep" => now < tm[t].wake
    /\ now' = now + 1
    /\ UNCHANGED <<alive, broker, hVars, mgrVars, ev, kafkaVars, delivered, emits>>
    /\ UNCHANGED auxVars

\* the Kafka broker stops answering
BrokerDown ==
    /\ broker = "up"
    /\ broker' = "down"
    /\ UNCHANGED <<alive, now, hVars, mgrVars, ev, kafkaVars, delivered, emits>>
    /\ UNCHANGED auxVars

\* -------------------------------------- Stream Aggregator (spark_streaming.py)
\* LTRIM live:danmaku:r 0 999
DanmakuListMax == 1000
\* the scores of the danmaku rows, in hundredths
Scores == {80, 30, 50}
\* a row of the topic as from_json parses it.  A danmaku record has its score
\* and label; a gift record goes to the same topic and has neither field, so
\* both columns are null.  window is the 5-second window of its timestamp.
DanmakuRow(r, score, w) ==
    [room_id |-> r, msg_type |-> "danmaku", sentiment_score |-> score,
     sentiment_label |-> sentiment_label(score), window |-> w]
GiftRow(r, w) ==
    [room_id |-> r, msg_type |-> "gift", sentiment_score |-> -1,
     sentiment_label |-> "null", window |-> w]
IsNull(row) == row.sentiment_label = "null"

\* round(sum / total, 3), in thousandths, for a sum in hundredths
Round3(sum, total) == (sum * 20 + total) \div (2 * total)

\* the keys of room_data in insertion order: the rooms of the rows in the
\* order of their first row
RECURSIVE RoomOrder(_, _)
RoomOrder(rows, seen) ==
    IF rows = << >> THEN << >>
    ELSE IF Head(rows).room_id \in seen THEN RoomOrder(Tail(rows), seen)
    ELSE <<Head(rows).room_id>> \o
         RoomOrder(Tail(rows), seen \cup {Head(rows).room_id})

\* room_data[r]: the count, the score sum and the label counts of the rows of r
RECURSIVE RoomData(_, _)
RoomData(rows, r) ==
    IF rows = << >>
    THEN [total_count |-> 0, sentiment_sum |-> 0, sentiment_dist |-> ZeroDist]
    ELSE LET d == RoomData(Tail(rows), r)
             h == Head(rows)
         IN IF h.room_id # r THEN d
            ELSE [total_count |-> d.total_count + 1,
                  sentiment_sum |-> d.sentiment_sum + h.sentiment_score,
                  sentiment_dist |->
                      [d.sentiment_dist EXCEPT ![h.sentiment_label] = @ + 1]]

\* the grouping loop raises TypeError at `+= row.sentiment_score` when a row
\* has a null score, before anything is written
GroupingRaises(rows) == \E i \in DOMAIN rows : IsNull(rows[i])

\* the writes of one room: push its danmaku and trim the list, then read the
\* stats key, add the batch to the record it holds (or start a record), set
\* the average and SETEX the record as a JSON string
WriteRoom(store, r, data) ==
    LET old == store[r].stats
        total == IF old.kind # "none" THEN old.total_danmaku + data.total_count
                 ELSE data.total_count
        sum == IF old.kind # "none" THEN old.sentiment_sum + data.sentiment_sum
               ELSE data.sentiment_sum
        dist == IF old.kind # "none"
                THEN [l \in DOMAIN ZeroDist |->
                         old.sentiment_dist[l] + data.sentiment_dist[l]]
                ELSE data.sentiment_dist
        len == store[r].danmaku + data.total_count
    IN [store EXCEPT
          ![r].danmaku = IF len > DanmakuListMax THEN DanmakuListMax ELSE len,
          ![r].stats = [kind |-> "string", total_danmaku |-> total,
                        sentiment_sum |-> sum, sentiment_dist |-> dist,
                        avg_sentiment |-> IF total > 0 THEN Round3(sum, total)
                                          ELSE 500]]

\* the write loop over room_data.items(), k rooms of it: a Redis command of
\* room k + 1 raises when k is less than the number of rooms
RECURSIVE WriteRooms(_, _, _, _)
WriteRooms(store, rows, order, k) ==
    IF k = 0 THEN store
    ELSE LET r == order[k]
         IN WriteRoom(WriteRooms(store, rows, order, k - 1), r, RoomData(rows, r))

\* whether write_to_redis raises to the streaming engine when it wrote `done`
\* of `n` rooms: the whole body is in try / except Exception, which prints
WriteToRedisRaises(done, n) == FALSE

\* write_to_redis(batch_df, batch_id) on the rows from..to of the topic, as
\* the function passed to foreachBatch: the engine marks the batch completed
\* when the function returns
write_to_redis(from, to) ==
    LET rows == SubSeq(topic, from, to)
        order == RoomOrder(rows, {})
        n == IF GroupingRaises(rows) THEN 0 ELSE Len(order)
    IN \E k \in 0..n :
         LET ok == k = Len(order) IN
         /\ redis' = WriteRooms(redis, rows, order, k)
         /\ batch_log' = Append(batch_log,
                [from |-> from, to |-> to,
                 outcome |-> IF ok THEN "written" ELSE "failed",
                 store_error |-> k < n])
         /\ offset' = IF WriteToRedisRaises(k, Len(order)) /\ ~ok
                       THEN offset ELSE to

\* the live service publishes a record to live-danmaku-topic; timestamps do
\* not go back
StreamPublish(row) ==
    /\ Len(topic) < MaxRows
    /\ topic # << >> => row.window >= topic[Len(topic)].window
    /\ topic' = Append(topic, row)
    /\ UNCHANGED <<liveVars, offset, batch_log, redis, queryVars, dpc, ctlVars>>

\* the engine runs a micro-batch with the rows after the committed offset
MicroBatch ==
    /\ offset < Len(topic)
    /\ write_to_redis(offset + 1, Len(topic))
    /\ UNCHANGED <<liveVars, topic, queryVars, dpc, ctlVars>>

\* batches that were run again
Replays ==
    Cardinality({i \in 2..Len(batch_log) :
                    batch_log[i].from = batch_log[i - 1].from})

\* the engine restarts after the function returned and before the batch was
\* recorded as committed, and runs the same batch again
ReplayBatch ==
    /\ batch_log # << >>
    /\ Replays < MaxReplays
    /\ LET last == batch_log[Len(batch_log)]
       IN /\ last.to = offset
          /\ write_to_redis(last.from, last.to)
    /\ UNCHANGED <<liveVars, topic, queryVars, dpc, ctlVars>>

Stream ==
    \/ \E r \in StreamRooms, w \in 0..(NumWindows - 1) :
          \/ \E score \in Scores : StreamPublish(DanmakuRow(r, score, w))
          \/ StreamPublish(GiftRow(r, w))
    \/ MicroBatch
    \/ ReplayBatch

\* ------------------------------------------------- query endpoints (live.py)
\* get_redis_client(): the singleton.  The first call stores the new
\* redis.Redis object in _client and then pings; when the ping raises the call
\* returns None and _client keeps the object, so every later call returns it
\* without a ping.
get_redis_client ==
    IF redis_client.set
    THEN [client |-> redis_client, result |-> "client"]
    ELSE [client |-> [set |-> TRUE, pinged |-> redis_up],
          result |-> IF redis_up THEN "client" ELSE "None"]

\* is_redis_available(): get_redis_client() is not None
is_redis_available == get_redis_client.result # "None"

\* the sequences without repetition over the set S
RECURSIVE Orders(_)
Orders(S) ==
    IF S = {} THEN {<< >>}
    ELSE UNION {{<<x>> \o q : q \in Orders(S \ {x})} : x \in S}

\* a hash at live:stats:r, the type that get_room_stats reads with HGETALL
HashStats(total) ==
    [NoStats EXCEPT !.kind = "hash", !.total_danmaku = total,
                    !.avg_sentiment = 500]
\* the JSON string that write_to_redis stores at live:stats:r
StringStats(total) ==
    [NoStats EXCEPT !.kind = "string", !.total_danmaku = total,
                    !.avg_sentiment = 500]

\* get_room_stats(r): None without a client, without the key, and when
\* HGETALL raises (WRONGTYPE on a string key), else the converted hash
get_room_stats(r) ==
    IF redis_up /\ redis[r].stats.kind = "hash"
    THEN [room_id |-> r, total_danmaku |-> redis[r].stats.total_danmaku]
    ELSE [room_id |-> 0, total_danmaku |-> 0]

\* get_all_room_stats() when KEYS returns the stats keys in the order `keys`:
\* the rooms whose get_room_stats is not None, in that order
RECURSIVE get_all_room_stats(_)
get_all_room_stats(keys) ==
    IF keys = << >> \/ ~redis_up THEN << >>
    ELSE LET st == get_room_stats(Head(keys))
         IN (IF st.room_id # 0 THEN <<st>> ELSE << >>)
            \o get_all_room_stats(Tail(keys))

\* the rooms that have a key live:stats:r
StatsKeys == {r \in StreamRooms : redis[r].stats.kind # "none"}

\* the fallback of get_multi_room_stats: the active rooms in the order of
\* manager.get_active_rooms(), with their in-memory counters
MemoryStats ==
    [i \in DOMAIN registry |->
        [room_id |-> registry[i].room_id,
         total_danmaku |-> registry[i].total_danmaku]]

\* get_multi_room_stats(): the store's rooms when the store gave any, else
\* the in-memory counters of the active rooms
get_multi_room_stats(keys) ==
    LET spark_stats == get_all_room_stats(keys)
    IN IF spark_stats # << >>
       THEN [source |-> "spark", rooms |-> spark_stats]
       ELSE [source |-> "memory", rooms |-> MemoryStats]

\* sorted(rooms, key=total_danmaku, reverse=True): a stable sort, rooms with
\* equal keys stay in the order of the input
RECURSIVE InsertDesc(_, _)
InsertDesc(sorted, x) ==
    IF sorted = << >> THEN <<x>>
    ELSE IF Head(sorted).total_danmaku >= x.total_danmaku
         THEN <<Head(sorted)>> \o InsertDesc(Tail(sorted), x)
         ELSE <<x>> \o sorted
RECURSIVE SortedDesc(_)
SortedDesc(rooms) ==
    IF rooms = << >> THEN << >>
    ELSE InsertDesc(SortedDesc(SubSeq(rooms, 1, Len(rooms) - 1)),
                    rooms[Len(rooms)])

\* get_room_ranking(): the sorted rooms with ranks from 1
Ranking(rooms) ==
    LET sorted_rooms == SortedDesc(rooms)
    IN [i \in DOMAIN sorted_rooms |->
           [rank |-> i, room_id |-> sorted_rooms[i].room_id,
            total_danmaku |-> sorted_rooms[i].total_danmaku]]

\* GET /multi/stats
GetMultiRoomStats ==
    /\ \E keys \in Orders(StatsKeys) :
          LET st == get_multi_room_stats(keys)
          IN response' = [op |-> "stats", source |-> st.source, rooms |-> st.rooms]
    /\ redis_client' = get_redis_client.client
    /\ UNCHANGED <<liveVars, streamVars, redis, redis_up, registry, dpc,
                   received, app, available>>

\* GET /multi/ranking
GetRoomRanking ==
    /\ \E keys \in Orders(StatsKeys) :
          LET st == get_multi_room_stats(keys)
          IN response' = [op |-> "ranking", source |-> st.source,
                          rooms |-> Ranking(st.rooms)]
    /\ redis_client' = get_redis_client.client
    /\ UNCHANGED <<liveVars, streamVars, redis, redis_up, registry, dpc,
                   received, app, available>>

\* GET /status/services: is_kafka_available() gets the producer, which creates
\* it when there is none, and is_redis_available() gets the Redis client
GetServicesStatus ==
    /\ producer' = get_kafka_producer
    /\ redis_client' = get_redis_client.client
    /\ available' = IF is_redis_available THEN "yes" ELSE "no"
    /\ UNCHANGED <<envVars, hVars, mgrVars, ev, published, delivered, emits,
                   streamVars, redis, redis_up, registry, response, dpc,
                   received, app>>

\* the store stops answering, and answers again
StoreDown ==
    /\ redis_up
    /\ redis_up' = FALSE
    /\ UNCHANGED <<liveVars, streamVars, redis, registry, response, dpc, ctlVars>>
StoreUp ==
    /\ ~redis_up
    /\ redis_up' = TRUE
    /\ UNCHANGED <<liveVars, streamVars, redis, registry, response, dpc, ctlVars>>

\* the states in which a query can arrive: any active rooms with their
\* counters, a store that answers or not, and for each room no stats key, a
\* hash, or the string of the Stream Aggregator
InitQuery ==
    /\ broker = "up"
    /\ InitRest
    /\ topic = << >>
    /\ offset = 0
    /\ batch_log = << >>
    /\ dpc = [k \in Callers |-> "idle"]
    /\ InitCtl
    /\ redis \in [StreamRooms ->
                    {[NoEntry EXCEPT !.stats = st] :
                        st \in {NoStats} \cup {HashStats(t) : t \in 0..MaxTotal}
                                         \cup {StringStats(t) : t \in 1..MaxTotal}}]
    /\ redis_up \in BOOLEAN
    /\ \E active \in SUBSET StreamRooms :
          \E order \in Orders(active) :
             \E totals \in [active -> 0..MaxTotal] :
                registry = [i \in DOMAIN order |->
                               [room_id |-> order[i],
                                total_danmaku |-> totals[order[i]]]]
    /\ response = NoResponse

\* the handlers of the websockets 1..n
Handlers(n) ==
    \/ \E w \in 1..n : PeerClose(w)
    \/ \E w \in 1..n : AcceptFail(w)
    \/ \E w \in 1..n : ConnectRegister(w)
    \/ \E w \in 1..n : ConnectStatusSent(w)
    \/ \E w \in 1..n : ConnectStatsSent(w)
    \/ \E w \in 1..n : DisconnectBegin(w)
    \/ \E w \in 1..n : DisconnectResume(w)
    \/ \E c \in 1..n : ClientTaskStart(c)

\* the tasks of up to n danmaku events with a text of `texts`
Danmaku(n, texts) ==
    \/ \E c \in 1..NumWS, content \in texts : EventArrive(c, "danmaku", content, n)
    \/ \E e \in 1..n : ScoreDone(e)
    \/ \E e \in 1..n : EventSendDone(e)

\* the tasks of gift events, while there are less than n events
Gifts(n) ==
    \/ \E c \in 1..NumWS : EventArrive(c, "gift", "gift", n)
    \/ \E e \in 1..n : GiftRun(e)

\* the timer loops
Timers ==
    \/ \E t \in 1..NumWS : TimerWake(t)
    \/ \E t \in 1..NumWS : TimerSendDone(t)
    \/ \E t \in 1..NumWS, ok \in BOOLEAN : TimerWordcloudDone(t, ok)

\* subscribe and unsubscribe alone, for up to NumWS websockets
NextLife == Handlers(NumWS)
SpecLife == Init /\ [][NextLife]_vars

\* NumSubs websockets and the danmaku events of their rooms; the text of a
\* danmaku has no part in what is checked here
Next == Handlers(NumSubs) \/ Danmaku(MaxEvents, {"good"})
Spec == Init /\ [][Next]_vars

\* the clock, the timer loops and the throttled pushes
NextTimer ==
    Handlers(NumTimerSubs) \/ Danmaku(MaxTimerEvents, {"good"}) \/ Timers \/ Tick
SpecTimer == Init /\ [][NextTimer]_vars

\* the publisher with a broker that may be down from the start or go down
NextKafka ==
    \/ Handlers(NumSubs)
    \/ Danmaku(MaxKafkaEvents, Contents)
    \/ Gifts(MaxKafkaEvents)
    \/ BrokerDown
SpecKafka == InitKafka /\ [][NextKafka]_vars

\* subscribe and unsubscribe with an upstream connection that can end
NextUpstream ==
    \/ Handlers(NumSubs)
    \/ \E c \in 1..NumSubs, raised \in BOOLEAN : UpstreamFail(c, raised)
SpecUpstream == Init /\ [][NextUpstream]_vars

\* one upstream client, its connect() task and callers of its disconnect()
NextClient ==
    \/ ClientTaskStart(1)
    \/ \E raised \in BOOLEAN : UpstreamFail(1, raised)
    \/ \E k \in Callers : ClientDisconnectCall(k, 1)
    \/ \E k \in Callers : ClientDisconnectDone(k, 1)
SpecClient == InitClient /\ [][NextClient]_vars

\* subscribe and unsubscribe with clients that send payloads
NextMessages ==
    \/ Handlers(NumSubs)
    \/ \E w \in 1..NumSubs, payload \in Payloads : ClientMessage(w, payload)
    \/ \E w \in 1..NumSubs : PongSent(w)
SpecMessages == Init /\ [][NextMessages]_vars

\* the live service until the application shuts down
NextShutdown ==
    \/ /\ app = "running"
       /\ \/ Handlers(NumSubs)
          \/ Danmaku(MaxKafkaEvents, {"good"})
    \/ Shutdown
SpecShutdown == Init /\ [][NextShutdown]_vars

\* danmaku with texts of every score range
NextLabel == Handlers(NumLabelSubs) \/ Danmaku(MaxLabelEvents, LabelContents)
SpecLabel == Init /\ [][NextLabel]_vars

\* the query endpoints over the store and the registry
NextQuery == GetMultiRoomStats \/ GetRoomRanking
SpecQuery == InitQuery /\ [][NextQuery]_vars

\* the health check and the stats query over a store that comes and goes
NextHealth == GetServicesStatus \/ GetMultiRoomStats \/ StoreDown \/ StoreUp
SpecHealth == InitQuery /\ [][NextHealth]_vars

\* the durable stream, the Stream Aggregator and the shared store
NextStream == Stream

\* the Stream Aggregator as the writer of the store and the stats query as
\* its reader
NextStore == Stream \/ GetMultiRoomStats
SpecStore == Init /\ [][NextStore]_vars
SpecStream == Init /\ [][NextStream]_vars

\* ======================================================================
\* Properties
\* ======================================================================

\* the upstream clients that exist for room r: the one _clients holds, and
\* every client whose connect() task was created and not cancelled
UpstreamClients(r) ==
    {c \in DOMAIN cl : cl[c].room = r /\ cl[c].task \in {"pending", "running"}}
    \cup (IF r \in DOMAIN clients THEN {clients[r]} ELSE {})

\* C1: a room with at least one registered subscriber has exactly one upstream
\* room client, never zero and never two
C1_ExactlyOneClient ==
    \A r \in Rooms :
        Subscribers(r) # {} => Cardinality(UpstreamClients(r)) = 1

Range(q) == {q[i] : i \in DOMAIN q}

\* no teardown of room r is suspended in the upstream client's disconnect()
NoTeardownInProgress(r) == \A v \in WS : wsRoom[v] = r => pc[v] # "close_wait"

\* the room has a session: a client whose connect() task was not cancelled,
\* stats, and a timer loop that was not cancelled
HasRunningSession(r) ==
    /\ r \in DOMAIN clients
    /\ cl[clients[r]].task \in {"pending", "running"}
    /\ r \in DOMAIN stats
    /\ r \in DOMAIN stats_tasks
    /\ tm[stats_tasks[r]].pc # "cancelled"

\* C2: a websocket whose connect() has completed and whose peer is there is,
\* once no teardown of its room is in progress, in the room's subscriber set,
\* and the room has a running upstream client, stats and timer loop
C2_SubscribeSurvivesTeardown ==
    \A w \in WS :
        (pc[w] = "recv" /\ alive[w] /\ NoTeardownInProgress(wsRoom[w]))
            => (w \in Subscribers(wsRoom[w]) /\ HasRunningSession(wsRoom[w]))

\* nothing is in progress: every handler is before its connect, in its receive
\* loop with its peer there, or has ended, and every event task has ended
Quiescent ==
    /\ \A w \in WS : pc[w] \in {"accept", "done", "crashed"}
                     \/ (pc[w] = "recv" /\ alive[w])
    /\ \A e \in DOMAIN ev : ev[e].pc \in {"done", "failed"}

\* C3: no quiescent state has an upstream client for a room with zero
\* subscribers
C3_NoSessionWithoutSubscribers ==
    Quiescent => \A r \in Rooms : UpstreamClients(r) # {} => Subscribers(r) # {}

\* the room has nothing left: no entry in any map of the manager, no upstream
\* client with a live connect() task, no timer loop that is not cancelled
TornDown(r) ==
    /\ r \notin DOMAIN connections
    /\ r \notin DOMAIN clients
    /\ r \notin DOMAIN tasks
    /\ r \notin DOMAIN stats
    /\ r \notin DOMAIN stats_tasks
    /\ r \notin DOMAIN last_stats_broadcast
    /\ r \notin DOMAIN last_wordcloud_broadcast
    /\ \A c \in DOMAIN cl : cl[c].room = r => cl[c].task \notin {"pending", "running"}
    /\ \A t \in DOMAIN tm : tm[t].room = r => tm[t].pc \in {"cancelled", "ended"}

\* C4: once every websocket that subscribed has unsubscribed and its
\* disconnect() has returned, the room's upstream client is disconnected and
\* removed, its timer loop is cancelled, and the room has no entry left in the
\* manager's maps
C4_LastUnsubscribeTearsDown ==
    (\A w \in WS : pc[w] \in {"accept", "done"}) => \A r \in Rooms : TornDown(r)

\* C5: a subscribe that creates a session stores a fresh LiveRoomStats: a new
\* object with zero counters, an empty recent buffer and the current time as
\* its start time
C5_FreshStatsOnCreate ==
    [][\A r \in Rooms :
          (r \notin DOMAIN clients /\ r \in DOMAIN clients')
              => /\ r \in DOMAIN stats'
                 /\ stats'[r].id > nstats
                 /\ stats'[r].total_danmaku = 0
                 /\ stats'[r].total_gift = 0
                 /\ stats'[r].sentiment_sum = 0
                 /\ \A l \in {"positive", "neutral", "negative"} :
                        stats'[r].sentiment_dist[l] = 0
                 /\ stats'[r].recent_danmakus = << >>
                 /\ stats'[r].start_time = now]_vars

\* a second session of a room whose first session counted a danmaku, still
\* with zero counters
C5_Witness ==
    \E r \in DOMAIN stats :
        /\ stats[r].id = 2
        /\ stats[r].total_danmaku = 0
        /\ \E e \in DOMAIN ev : ev[e].room = r /\ ev[e].counted = 1

\* C6: the danmaku messages written to one subscriber are in the arrival
\* order of their events
C6_DanmakuInArrivalOrder ==
    \A w \in WS : \A i, j \in DOMAIN delivered[w] :
        (i < j /\ delivered[w][i].type = "danmaku" /\ delivered[w][j].type = "danmaku")
            => delivered[w][i].n < delivered[w][j].n

\* C7: two "stats" broadcasts of a room are at least one push interval apart
C7_AtMostOneStatsPerWindow ==
    \A r \in Rooms :
        emits[r][1] # DatetimeMin => emits[r][2] - emits[r][1] >= StatsPushInterval

\* the later of the room's last "stats" broadcast and its session's start
LastStatsOrStart(r) ==
    IF emits[r][2] > stats[r].start_time THEN emits[r][2] ELSE stats[r].start_time

\* C8: while a room has a subscriber, no interval longer than the timer
\* interval passes without a "stats" broadcast
C8_AtLeastOneStatsPerWindow ==
    \A r \in DOMAIN stats :
        (\E w \in Subscribers(r) : alive[w]) => now - LastStatsOrStart(r) <= TimerInterval

\* C9: a _broadcast call in which a send failed does not raise, sends to every
\* other subscriber of the room, and leaves the failed subscriber out of the
\* room's set
C9_FailedSendIsolated ==
    \A e \in DOMAIN ev :
        (ev[e].pc \in {"done", "failed"} /\ ev[e].res.failed_sends # {})
            => /\ ev[e].res.error = "none"
               /\ ev[e].res.skipped = {}
               /\ ev[e].res.failed_sends \cap Subscribers(ev[e].room) = {}

\* the event's processing ended, and its record was not published
Unpublished(e) == ev[e].pc \in {"done", "failed"} /\ e \notin Range(published)

PublishedInLocalOrder ==
    \A i, j \in DOMAIN published :
        (i < j /\ ev[published[i]].room = ev[published[j]].room)
            => ev[published[i]].order < ev[published[j]].order

\* every published record has the room id of its event as its key
PublishedKeyedByRoom ==
    \A i \in DOMAIN published :
        ProducerRecord(published[i]).key = ev[published[i]].room

\* C11: the records of a room are published in the order in which the room's
\* events updated the stats, and every published record has its room id as
\* its key
C11_PublishedInLocalOrderKeyed == PublishedInLocalOrder /\ PublishedKeyedByRoom

\* the step runs again the batch of the last write_to_redis call, and both
\* calls wrote every room of the batch
ReplayOfWrittenBatch ==
    /\ batch_log # << >>
    /\ Len(batch_log') = Len(batch_log) + 1
    /\ batch_log'[Len(batch_log')].from = batch_log[Len(batch_log)].from
    /\ batch_log'[Len(batch_log')].outcome = "written"
    /\ batch_log[Len(batch_log)].outcome = "written"

\* C12: processing the same micro-batch a second time leaves every room's
\* current-stats record as the first processing left it
C12_ReplayIsIdempotent ==
    [][ReplayOfWrittenBatch
          => \A r \in StreamRooms : redis'[r].stats = redis[r].stats]_vars

\* the rows whose micro-batch has completed
Processed == SubSeq(topic, 1, offset)

\* the danmaku rows of room r in window w among the processed rows
WindowRows(r, w) ==
    SelectSeq(Processed, LAMBDA x : x.room_id = r /\ x.msg_type = "danmaku"
                                    /\ x.window = w)

\* the record is the aggregate of the rows: their number, their label counts
\* and the mean of their scores rounded to 3 decimals
IsAggregateOf(record, rows) ==
    LET d == RoomData(rows, IF rows = << >> THEN 0 ELSE rows[1].room_id)
    IN /\ rows # << >>
       /\ record.total_danmaku = Len(rows)
       /\ record.sentiment_dist = d.sentiment_dist
       /\ record.avg_sentiment = Round3(d.sentiment_sum, Len(rows))

\* every write_to_redis call wrote its whole batch, and no batch ran twice
EveryBatchWrittenOnce ==
    /\ \A i \in DOMAIN batch_log : batch_log[i].outcome = "written"
    /\ Replays = 0

\* C13: a room's record in the store is the aggregate of the room's danmaku
\* events of one 5-second window: their number, label counts that sum to it,
\* and the mean of their scores rounded to 3 decimals
C13_RecordIsWindowAggregate ==
    EveryBatchWrittenOnce
        => \A r \in StreamRooms :
              redis[r].stats.kind # "none"
                  => \E w \in 0..(NumWindows - 1) :
                        IsAggregateOf(redis[r].stats, WindowRows(r, w))

\* the danmaku rows of room r among the processed rows
DanmakuRowsOf(r) ==
    SelectSeq(Processed, LAMBDA x : x.room_id = r /\ x.msg_type = "danmaku")

\* C14: no danmaku event of a micro-batch that was marked completed is
\* missing from the store's aggregates, also when the processing or the
\* store write of its batch failed
C14_NoEventOfCompletedBatchMissing ==
    \A r \in StreamRooms :
        Len(DanmakuRowsOf(r)) <= redis[r].stats.total_danmaku

\* C15: a room's current stats record is also the newest entry of the room's
\* history list, and the list holds at most 100 entries
C15_HistoryAppendedAndBounded ==
    \A r \in StreamRooms :
        /\ Len(redis[r].history) <= 100
        /\ redis[r].stats.kind # "none"
              => /\ redis[r].history # << >>
                 /\ Head(redis[r].history) = redis[r].stats

\* the rooms of the registry, and the store has no readable entry for room r
ActiveRooms == {registry[i].room_id : i \in DOMAIN registry}
StoreHasNothingFor(r) == ~redis_up \/ redis[r].stats.kind = "none"

RankingOrdered ==
    \A i, j \in DOMAIN response.rooms :
        /\ response.rooms[i].rank = i
        /\ i < j => \/ response.rooms[i].total_danmaku > response.rooms[j].total_danmaku
                    \/ /\ response.rooms[i].total_danmaku = response.rooms[j].total_danmaku
                       /\ response.rooms[i].room_id < response.rooms[j].room_id

\* the ranking lists every active room
RankingListsActiveRooms ==
    ActiveRooms = {response.rooms[i].room_id : i \in DOMAIN response.rooms}

\* C17: the ranking lists every active room exactly once with ranks 1..n,
\* by count descending and, for equal counts, by room id ascending
C17_RankingDeterministic ==
    response.op = "ranking" => RankingOrdered /\ RankingListsActiveRooms

\* C18: after the upstream connection of a room has ended, a subscribe to the
\* room leaves the room with an upstream client whose connect() task is live
C18_ResubscribeAfterUpstreamFailure ==
    [][\A w \in WS :
          (/\ pc[w] = "accept"
           /\ pc'[w] = "send_status"
           /\ wsRoom[w] \in DOMAIN clients
           /\ cl[clients[wsRoom[w]]].task = "ended")
              => /\ wsRoom[w] \in DOMAIN clients'
                 /\ cl'[clients'[wsRoom[w]]].task \in {"pending", "running"}]_vars

\* C19: once a call of the client's disconnect() has returned, the client is
\* not connected, whatever the point of the in-flight connect() at which it
\* was called
C19_DisconnectLeavesNotConnected ==
    \A k \in Callers : \A c \in DOMAIN cl :
        dpc[k] = "returned" => ~cl[c].is_connected

\* C20: a disconnect(room, s) that is suspended in the teardown of its room
\* resumes and returns; it does not raise
C20_TeardownNeverRaises ==
    [][\A w \in WS :
          pc[w] = "close_wait" => pc'[w] \in {"close_wait", "done"}]_vars

\* the first message written to a websocket is the "status" of its connect
StatusIsFirstMessage ==
    \A w \in WS : delivered[w] # << >> => delivered[w][1].type = "status"

\* w is the only websocket that has called connect so far: no session of its
\* room existed before its subscribe
OnlySubscriberSoFar(w) == \A v \in WS \ {w} : pc[v] = "accept"

\* C21: the first message a subscriber receives is the "status" of its
\* subscribe, and a subscriber whose subscribe found no session of the room
\* is sent no "stats" snapshot
C21_StatusFirstSnapshotIfSessionExisted ==
    /\ StatusIsFirstMessage
    /\ \A w \in WS :
          OnlySubscriberSoFar(w)
              => \A i \in DOMAIN delivered[w] : delivered[w][i].type # "stats"

\* the handler of w got a payload of a kind it had not got just before
Receives(w, kinds) == received'[w] # received[w] /\ received'[w] \in kinds

\* C22: a ping is answered with one "pong" to its sender, and every other
\* payload, an object without the ping action, a JSON value that is not an
\* object or a frame that is not JSON, writes nothing, leaves the handler in
\* its receive loop and leaves the subscriber in its room's set
C22_PingPongOthersIgnored ==
    [][\A w \in WS :
          /\ Receives(w, {"ping"}) => pc'[w] = "send_pong"
          /\ (pc[w] = "send_pong" /\ pc'[w] = "recv")
                => delivered'[w] = Append(delivered[w], [type |-> "pong", n |-> 0])
          /\ Receives(w, {"object", "not_object", "malformed"})
                => /\ pc'[w] = "recv"
                   /\ delivered'[w] = delivered[w]
                   /\ w \in Subscribers(wsRoom[w])
                         => w \in sets'[connections[wsRoom[w]]]
                            /\ wsRoom[w] \in DOMAIN connections']_vars

\* C23: when the application has shut down, every room session is torn down
\* (no entry in the manager's maps, no live connect() task, no timer loop) and
\* the Kafka producer is not left open
C23_ShutdownCancelsSessions ==
    app = "stopped"
        => /\ \A r \in Rooms : TornDown(r)
           /\ producer # "open"

\* the positions of a timer loop inside a round: in a _broadcast or in the
\* wordcloud computation
InRound == {"bstats", "bwc", "wc_compute"}

\* C24: a timer loop that is inside a round stays in the round, goes on to its
\* next sleep or is cancelled, also when the round raised; a loop ends only
\* from its sleep, when the room's stats are gone
C24_TimerLoopSurvivesException ==
    [][\A t \in DOMAIN tm :
          /\ tm[t].pc \in InRound
                => tm'[t].pc \in InRound \cup {"sleep", "cancelled"}
          /\ (tm[t].pc # "ended" /\ tm'[t].pc = "ended")
                => tm[t].pc = "sleep" /\ tm[t].room \notin DOMAIN stats]_vars

\* a loop whose last round raised is in the stats broadcast of its next round
C24_Witness ==
    \E t \in DOMAIN tm : tm[t].caught /\ tm[t].pc = "bstats"

\* the label of a score, in hundredths: positive from 0.6, negative up to 0.4
LabelOfScore(score) ==
    IF score >= 60 THEN "positive" ELSE IF score <= 40 THEN "negative" ELSE "neutral"

\* the danmaku events that have their score
Scored == {e \in DOMAIN ev : ev[e].kind = "danmaku" /\ ev[e].pc # "scoring"}

\* C25: a scored danmaku has the label of its score (0.72 and 0.6 positive,
\* 0.35 and 0.4 negative, 0.5 neutral), and that label is the one counted in
\* the room's stats, the one of the message written to the subscribers and
\* the one of the published record
C25_OneLabelByScore ==
    /\ \A e \in Scored :
          /\ ev[e].score = analyze_sentiment(ev[e].content)
          /\ ev[e].label = LabelOfScore(ev[e].score)
    /\ \A r \in DOMAIN stats : \A l \in DOMAIN ZeroDist :
          stats[r].sentiment_dist[l] =
              Cardinality({e \in Scored : /\ ev[e].counted = stats[r].id
                                          /\ LabelOfScore(ev[e].score) = l})
    /\ \A w \in WS : \A i \in DOMAIN delivered[w] :
          delivered[w][i].type = "danmaku"
              => DanmakuMessageData(delivered[w][i].n).sentiment_label
                     = LabelOfScore(ev[delivered[w][i].n].score)
    /\ \A i \in DOMAIN published :
          ev[published[i]].kind = "danmaku"
              => KafkaMessage(ProducerRecord(published[i]).value).sentiment_label
                     = LabelOfScore(ev[published[i]].score)

\* danmaku with the scores 0.6 and 0.4, counted as positive and negative in
\* the stats, published and written to the subscriber
C25_Witness ==
    \E e1, e2 \in Scored : \E r \in DOMAIN stats :
        /\ ev[e1].score = 60 /\ ev[e1].label = "positive"
        /\ ev[e2].score = 40 /\ ev[e2].label = "negative"
        /\ stats[r].sentiment_dist.positive = 1
        /\ stats[r].sentiment_dist.negative = 1
        /\ {e1, e2} \subseteq Range(published)
        /\ \E w \in WS : {EventMsg(e1), EventMsg(e2)} \subseteq Range(delivered[w])

\* C26: a _broadcast of an event task that has ended did not raise because
\* the room's set or registry entry changed while it iterated, and it sent to
\* every websocket that was in the room's set from its start to its end
C26_BroadcastSerializedWithRegistry ==
    \A e \in DOMAIN ev :
        ev[e].pc \in {"done", "failed"}
            => /\ ev[e].res.error \notin {"RuntimeError", "KeyError"}
               /\ ev[e].res.skipped = {}

\* the session of room r that a client belongs to is the one whose stats were
\* created with it: connect creates the stats and the client together, so the
\* n-th client and the n-th LiveRoomStats object are of the same session
SessionOf(c) == c

\* C27: an event of an upstream client changes the stats of that client's
\* session only, never the stats object of a later session of the room
C27_NoLeakIntoLaterSession ==
    \A e \in DOMAIN ev :
        ev[e].counted # 0 => ev[e].counted = SessionOf(ev[e].client)

\* no Redis command of a write_to_redis call raised, and no batch ran twice
NoStoreErrorNoReplay ==
    /\ \A i \in DOMAIN batch_log : ~batch_log[i].store_error
    /\ Replays = 0

\* C28: when the store answers and no batch is replayed, every danmaku row of
\* the completed micro-batches is counted once in its room's record, whatever
\* gift rows and rows of other rooms the batches hold
C28_DanmakuCountedWithGifts ==
    NoStoreErrorNoReplay
        => \A r \in StreamRooms :
              redis[r].stats.total_danmaku = Len(DanmakuRowsOf(r))

\* the Stream Aggregator has written the current-stats record of room r
WrittenByAggregator(r) == redis[r].stats.kind = "string"

\* the reader returns an entry for r with the record's danmaku count
ReaderAgrees(r) ==
    /\ get_room_stats(r).room_id = r
    /\ get_room_stats(r).total_danmaku = redis[r].stats.total_danmaku
    /\ \A keys \in Orders(StatsKeys) :
          \E i \in DOMAIN get_all_room_stats(keys) :
             get_all_room_stats(keys)[i] = get_room_stats(r)

\* C29: once the Stream Aggregator has written the record of a room, the
\* reader's get_room_stats and get_all_room_stats return the room with the
\* record's count, and the stats query answers from the store
C29_WriterReaderAgree ==
    \A r \in StreamRooms :
        (WrittenByAggregator(r) /\ redis_up)
            => /\ ReaderAgrees(r)
               /\ \A keys \in Orders(StatsKeys) :
                     get_multi_room_stats(keys).source = "spark"

\* C30: the health check answers that the store is available only if the
\* connection ping of the client it holds was answered; after a ping that
\* failed it keeps answering unavailable
C30_AvailableOnlyAfterPing ==
    available = "yes" => redis_client.pinged
====
